---- MODULE Spec2Model ----
(***************************************************************************)
(* AIPromptParser (src/src/utils/promptParser.ts) and the clarification    *)
(* handlers of AIItineraryWizard (src/src/components/wizard/               *)
(* AIItineraryWizard.tsx).                                                  *)
(*                                                                         *)
(* Texts are TLA+ strings; character i (0-based, as in JavaScript) of s is *)
(* CharAt(s, i).  Confidence values are kept in hundredths (0.9 is 90), so *)
(* every value the code computes is an integer.                            *)
(***************************************************************************)
EXTENDS Integers, Sequences, FiniteSets, TLC

\* ------------------------------------------------------------------------
\* String primitives of the JavaScript runtime used by the parser
\* ------------------------------------------------------------------------

\* s.charAt(i): the one-character string at 0-based index i, "" when out of range
CharAt(s, i) == IF i >= 0 /\ i < Len(s) THEN SubSeq(s, i + 1, i + 1) ELSE ""

\* s.slice(from, to) for 0 <= from, to exclusive
Slice(s, from, to) ==
  IF from >= to \/ from >= Len(s) THEN ""
  ELSE SubSeq(s, from + 1, IF to > Len(s) THEN Len(s) ELSE to)

\* s.startsWith(t, i)
StartsAt(s, t, i) == i + Len(t) <= Len(s) /\ Slice(s, i, i + Len(t)) = t

\* s.includes(t)
Includes(s, t) ==
  \/ Len(t) = 0
  \/ \E i \in 0..(Len(s) - Len(t)) : StartsAt(s, t, i)

\* Array.prototype.includes
ArrIncludes(a, x) == \E i \in 1..Len(a) : a[i] = x

UpperLetters == << "A", "B", "C", "D", "E", "F", "G", "H", "I", "J", "K", "L", "M",
                   "N", "O", "P", "Q", "R", "S", "T", "U", "V", "W", "X", "Y", "Z" >>

LowerLetters == << "a", "b", "c", "d", "e", "f", "g", "h", "i", "j", "k", "l", "m",
                   "n", "o", "p", "q", "r", "s", "t", "u", "v", "w", "x", "y", "z" >>

Digits == << "0", "1", "2", "3", "4", "5", "6", "7", "8", "9" >>

IsDigit(c) == \E i \in 1..10 : Digits[i] = c

IsLetter(c) == \E i \in 1..26 : LowerLetters[i] = c \/ UpperLetters[i] = c

\* the class \s restricted to the characters a TLA+ string can spell
IsSpace(c) == c \in {" ", "\t", "\n", "\r", "\f"}

LowerChar(c) ==
  IF \E i \in 1..26 : UpperLetters[i] = c
  THEN LowerLetters[CHOOSE i \in 1..26 : UpperLetters[i] = c]
  ELSE c

UpperChar(c) ==
  IF \E i \in 1..26 : LowerLetters[i] = c
  THEN UpperLetters[CHOOSE i \in 1..26 : LowerLetters[i] = c]
  ELSE c

\* s.toLowerCase(), character by character (the two halves of s in turn)
RECURSIVE toLowerCase(_)
toLowerCase(s) ==
  IF Len(s) = 0 THEN ""
  ELSE IF Len(s) = 1 THEN LowerChar(s)
  ELSE toLowerCase(Slice(s, 0, Len(s) \div 2)) \o toLowerCase(Slice(s, Len(s) \div 2, Len(s)))

\* word.charAt(0).toUpperCase() + word.slice(1)
Capitalize(word) ==
  IF Len(word) = 0 THEN "" ELSE UpperChar(CharAt(word, 0)) \o Slice(word, 1, Len(word))

\* s.indexOf(' '), or -1
IndexOfSpace(s) ==
  IF \E i \in 0..(Len(s) - 1) : CharAt(s, i) = " "
  THEN CHOOSE i \in 0..(Len(s) - 1) :
         CharAt(s, i) = " " /\ \A j \in 0..(i - 1) : CharAt(s, j) # " "
  ELSE -1

\* s.split(' ').map(Capitalize).join(' ')
RECURSIVE TitleCase(_)
TitleCase(s) ==
  LET i == IndexOfSpace(s) IN
  IF i < 0 THEN Capitalize(s)
  ELSE Capitalize(Slice(s, 0, i)) \o " " \o TitleCase(Slice(s, i + 1, Len(s)))

\* s.trim()
RECURSIVE Trim(_)
Trim(s) ==
  IF Len(s) = 0 THEN ""
  ELSE IF IsSpace(CharAt(s, 0)) THEN Trim(Slice(s, 1, Len(s)))
  ELSE IF IsSpace(CharAt(s, Len(s) - 1)) THEN Trim(Slice(s, 0, Len(s) - 1))
  ELSE s

DigitValue(c) == (CHOOSE i \in 1..10 : Digits[i] = c) - 1

\* parseInt on a string of decimal digits
RECURSIVE DigitsToInt(_)
DigitsToInt(s) ==
  IF Len(s) = 0 THEN 0
  ELSE 10 * DigitsToInt(Slice(s, 0, Len(s) - 1)) + DigitValue(CharAt(s, Len(s) - 1))

Min(S) == CHOOSE m \in S : \A o \in S : m <= o

\* ------------------------------------------------------------------------
\* The parser's static tables
\* ------------------------------------------------------------------------

destinations ==
  << "california", "florida", "texas", "new york", "washington", "oregon",
     "colorado", "arizona", "nevada", "utah", "montana", "wyoming",
     "north carolina", "south carolina", "georgia", "virginia", "maine", "new hampshire",
     "vermont", "massachusetts", "connecticut", "rhode island", "new england", "pacific northwest",
     "southwest", "midwest", "great lakes", "appalachian", "san francisco", "los angeles",
     "seattle", "portland", "denver", "chicago", "new york city", "boston",
     "washington dc", "miami", "orlando", "austin", "dallas", "houston",
     "phoenix", "las vegas", "salt lake city", "minneapolis", "detroit", "atlanta",
     "charlotte", "nashville", "yellowstone", "yosemite", "grand canyon", "zion",
     "arches", "bryce canyon", "glacier", "great smoky mountains", "acadia", "olympic",
     "mount rainier", "crater lake", "sequoia", "joshua tree", "death valley", "big sur",
     "napa valley", "blue ridge parkway", "europe", "france", "germany", "italy",
     "spain", "england", "scotland", "ireland", "norway", "sweden",
     "denmark", "netherlands", "switzerland", "austria", "canada", "british columbia",
     "alberta", "ontario", "quebec", "australia", "new zealand", "japan" >>

interests ==
  << "nature", "hiking", "national parks", "beaches", "mountains", "forests",
     "wildlife", "camping", "history", "museums", "architecture", "culture",
     "art", "galleries", "monuments", "historic sites", "food", "restaurants",
     "wineries", "breweries", "local cuisine", "farmers markets", "adventure", "outdoor activities",
     "rock climbing", "kayaking", "fishing", "skiing", "cycling", "photography",
     "scenic drives", "viewpoints", "landscapes", "sunsets", "waterfalls", "cities",
     "urban exploration", "nightlife", "shopping", "entertainment", "theaters", "relaxation",
     "spas", "hot springs", "meditation", "wellness", "yoga retreats", "family",
     "kids", "theme parks", "zoos", "aquariums", "family-friendly", "budget",
     "luxury", "off the beaten path", "hidden gems", "local experiences" >>

uiTagMap ==
  << [uiTag |-> "Nature & Wildlife",
      synonyms |-> << "nature", "wildlife", "outdoors", "forests", "animals", "parks", "scenic drives", "waterfalls" >>],
     [uiTag |-> "Historical Sites",
      synonyms |-> << "history", "historic sites", "monuments", "heritage", "ancient", "historical", "historic" >>],
     [uiTag |-> "Food & Dining",
      synonyms |-> << "food", "restaurants", "cuisine", "dining", "local food", "culinary", "farmers markets", "coffee", "local cuisine" >>],
     [uiTag |-> "Adventure Sports",
      synonyms |-> << "adventure", "rock climbing", "kayaking", "skiing", "outdoor activities", "sports", "extreme", "rafting", "climbing" >>],
     [uiTag |-> "Art & Culture",
      synonyms |-> << "art", "culture", "galleries", "cultural", "museums", "exhibitions", "theaters", "performances" >>],
     [uiTag |-> "Photography",
      synonyms |-> << "photography", "photo", "scenic", "viewpoints", "landscapes", "instagram", "sunsets" >>],
     [uiTag |-> "Wine & Breweries",
      synonyms |-> << "wine", "wineries", "breweries", "beer", "tasting", "vineyards" >>],
     [uiTag |-> "Museums",
      synonyms |-> << "museums", "exhibits", "collections", "science", "technology" >>],
     [uiTag |-> "Beaches & Coast",
      synonyms |-> << "beaches", "coast", "ocean", "seaside", "coastal", "waterfront", "coastline", "surfing" >>],
     [uiTag |-> "Mountains",
      synonyms |-> << "mountains", "peaks", "alpine", "elevation", "summit", "hiking", "trails" >>],
     [uiTag |-> "Local Markets",
      synonyms |-> << "markets", "shopping", "local", "crafts", "souvenirs" >>],
     [uiTag |-> "Music Venues",
      synonyms |-> << "music", "concerts", "venues", "live music", "festivals", "entertainment" >>],
     [uiTag |-> "Wellness & Relaxation",
      synonyms |-> << "relaxation", "spas", "hot springs", "wellness", "yoga" >>],
     [uiTag |-> "Family Friendly",
      synonyms |-> << "family", "kids", "theme parks", "zoos", "aquariums", "family-friendly" >>] >>

\* atoms of the duration regular expressions
Dig == [t |-> "digits", s |-> ""]

Ws0 == [t |-> "ws0", s |-> ""]

Ws1 == [t |-> "ws1", s |-> ""]

Lit(str) == [t |-> "lit", s |-> str]

Opt(str) == [t |-> "opt", s |-> str]

\* durationPatterns, in table order; alts are the alternatives of the
\* regular expression, each a sequence of atoms
durationPatterns ==
  << [alts |-> << << Dig, Ws0, Lit("day"), Opt("s") >> >>, kind |-> "multiplier", n |-> 1],
     [alts |-> << << Dig, Ws0, Lit("week"), Opt("s") >> >>, kind |-> "multiplier", n |-> 7],
     [alts |-> << << Dig, Ws0, Lit("month"), Opt("s") >> >>, kind |-> "multiplier", n |-> 30],
     [alts |-> << << Lit("one"), Ws1, Lit("day") >>, << Lit("a"), Ws1, Lit("day") >> >>,
      kind |-> "value", n |-> 1],
     [alts |-> << << Lit("two"), Ws1, Lit("day"), Opt("s") >> >>, kind |-> "value", n |-> 2],
     [alts |-> << << Lit("three"), Ws1, Lit("day"), Opt("s") >> >>, kind |-> "value", n |-> 3],
     [alts |-> << << Lit("four"), Ws1, Lit("day"), Opt("s") >> >>, kind |-> "value", n |-> 4],
     [alts |-> << << Lit("five"), Ws1, Lit("day"), Opt("s") >> >>, kind |-> "value", n |-> 5],
     [alts |-> << << Lit("six"), Ws1, Lit("day"), Opt("s") >> >>, kind |-> "value", n |-> 6],
     [alts |-> << << Lit("seven"), Ws1, Lit("day"), Opt("s") >>,
                  << Lit("a"), Ws1, Lit("week"), Ws1, Lit("day"), Opt("s") >> >>,
      kind |-> "value", n |-> 7],
     [alts |-> << << Lit("one"), Ws1, Lit("week") >>, << Lit("a"), Ws1, Lit("week") >> >>,
      kind |-> "value", n |-> 7],
     [alts |-> << << Lit("two"), Ws1, Lit("week"), Opt("s") >> >>, kind |-> "value", n |-> 14],
     [alts |-> << << Dig, Lit("-"), Dig, Ws0, Lit("day"), Opt("s") >> >>, kind |-> "range", n |-> 0],
     [alts |-> << << Dig, Ws0, Lit("to"), Ws0, Dig, Ws0, Lit("day"), Opt("s") >> >>,
      kind |-> "range", n |-> 0],
     [alts |-> << << Lit("weekend") >> >>, kind |-> "value", n |-> 2],
     [alts |-> << << Lit("long"), Ws1, Lit("weekend") >> >>, kind |-> "value", n |-> 3],
     [alts |-> << << Lit("short"), Ws1, Lit("trip") >> >>, kind |-> "value", n |-> 2],
     [alts |-> << << Lit("quick"), Ws1, Lit("trip") >> >>, kind |-> "value", n |-> 1],
     [alts |-> << << Lit("extended"), Ws1, Lit("trip") >> >>, kind |-> "value", n |-> 10],
     [alts |-> << << Lit("road"), Ws1, Lit("trip") >> >> , kind |-> "value", n |-> 7] >>

NumPatterns == Len(durationPatterns)

\* ------------------------------------------------------------------------
\* Regular-expression matching (RegExp.prototype.exec / test with the g flag)
\* ------------------------------------------------------------------------

RECURSIVE DigitRunEnd(_, _)
DigitRunEnd(text, p) ==
  IF p < Len(text) /\ IsDigit(CharAt(text, p)) THEN DigitRunEnd(text, p + 1) ELSE p

RECURSIVE SpaceRunEnd(_, _)
SpaceRunEnd(text, p) ==
  IF p < Len(text) /\ IsSpace(CharAt(text, p)) THEN SpaceRunEnd(text, p + 1) ELSE p

NoMatch == [ok |-> FALSE, end |-> 0, caps |-> << >>]

\* match atoms[k..] at position p; greedy, which for these patterns is the
\* only way to match (a run of digits or blanks is never followed by an atom
\* that could take one of its characters)
RECURSIVE MatchAtoms(_, _, _, _, _)
MatchAtoms(text, p, atoms, k, caps) ==
  IF k > Len(atoms) THEN [ok |-> TRUE, end |-> p, caps |-> caps]
  ELSE LET a == atoms[k] IN
    CASE a.t = "lit" ->
           IF StartsAt(text, a.s, p)
           THEN MatchAtoms(text, p + Len(a.s), atoms, k + 1, caps)
           ELSE NoMatch
      [] a.t = "opt" ->
           IF StartsAt(text, a.s, p)
           THEN MatchAtoms(text, p + Len(a.s), atoms, k + 1, caps)
           ELSE MatchAtoms(text, p, atoms, k + 1, caps)
      [] a.t = "digits" ->
           LET e == DigitRunEnd(text, p) IN
           IF e > p
           THEN MatchAtoms(text, e, atoms, k + 1, Append(caps, Slice(text, p, e)))
           ELSE NoMatch
      [] a.t = "ws0" ->
           MatchAtoms(text, SpaceRunEnd(text, p), atoms, k + 1, caps)
      [] a.t = "ws1" ->
           LET e == SpaceRunEnd(text, p) IN
           IF e > p THEN MatchAtoms(text, e, atoms, k + 1, caps) ELSE NoMatch

\* the first alternative, in order from alternative i, that matches at p
RECURSIVE MatchAltFrom(_, _, _, _)
MatchAltFrom(pat, text, p, i) ==
  IF i > Len(pat.alts) THEN NoMatch
  ELSE LET m == MatchAtoms(text, p, pat.alts[i], 1, << >>) IN
       IF m.ok THEN m ELSE MatchAltFrom(pat, text, p, i + 1)

MatchAt(pat, text, p) == MatchAltFrom(pat, text, p, 1)

\* every match of pat in text, as a function from the start position of a
\* match to the match
AllMatches(pat, text) ==
  [p \in {q \in 0..(Len(text) - 1) : MatchAt(pat, text, q).ok} |-> MatchAt(pat, text, p)]

\* pattern.exec(text) / pattern.test(text) of a global regular expression
\* whose lastIndex is li, given every match of the pattern in the text and
\* the text's length: the leftmost match starting at or after li; the
\* returned end is the new lastIndex, and a failed search leaves lastIndex 0
Exec(matches, len, li) ==
  LET later == {p \in DOMAIN matches : p >= li}
  IN IF li > len \/ later = {} THEN NoMatch ELSE matches[Min(later)]

\* ------------------------------------------------------------------------
\* Field extractors
\* ------------------------------------------------------------------------

Undefined == "undefined"

\* the three pattern literals of extractDestination; each call builds fresh
\* RegExp objects, so their lastIndex is 0 at every exec
destinationPatterns ==
  << << "to", "visit", "explore", "see", "trip to", "travel to", "drive to", "go to" >>,
     << "around", "through", "across" >>,
     << "in", "from" >> >>

destinationStopwords == << "the", "and", "or", "with", "for", "my", "a", "an" >>

\* the character class [a-zA-Z\s,]
InDestClass(c) == IsLetter(c) \/ IsSpace(c) \/ c = ","

\* the closing group (?:\s|,|\.|\?|!|$) at position j
IsDestTerminator(text, j) ==
  \/ j = Len(text)
  \/ j < Len(text) /\ (IsSpace(CharAt(text, j)) \/ CharAt(text, j) \in {",", ".", "?", "!"})

\* the lazy capture ([a-zA-Z\s,]+?) from c0, tried with n characters and
\* then with more: the shortest capture the closing group can follow, as
\* its end position, or -1
RECURSIVE DestCaptureEnd(_, _, _)
DestCaptureEnd(text, c0, n) ==
  IF c0 + n > Len(text) \/ ~InDestClass(CharAt(text, c0 + n - 1)) THEN -1
  ELSE IF IsDestTerminator(text, c0 + n) THEN c0 + n
  ELSE DestCaptureEnd(text, c0, n + 1)

\* the text captured from `from` when the capture ends at end, or else
\* what the next attempt gives
DestCapture(text, from, end, otherwise) ==
  IF end >= 0 THEN Slice(text, from, end) ELSE otherwise

\* \s+ from e, tried with w blanks and then with fewer (greedy): the capture
\* of the first w that leads to a match, or Undefined
RECURSIVE DestAfterKeyword(_, _, _)
DestAfterKeyword(text, e, w) ==
  IF w < 1 THEN Undefined
  ELSE DestCapture(text, e + w, DestCaptureEnd(text, e + w, 1),
                   DestAfterKeyword(text, e, w - 1))

\* m when it is a match, or else what the next attempt gives
FirstMatch(m, otherwise) == IF m # Undefined THEN m ELSE otherwise

\* the alternatives of the keyword group at p, in order from keyword i
RECURSIVE DestAt(_, _, _, _)
DestAt(keywords, text, p, i) ==
  IF i > Len(keywords) THEN Undefined
  ELSE FirstMatch(IF StartsAt(text, keywords[i], p)
                  THEN DestAfterKeyword(text, p + Len(keywords[i]),
                                        SpaceRunEnd(text, p + Len(keywords[i]))
                                          - (p + Len(keywords[i])))
                  ELSE Undefined,
                  DestAt(keywords, text, p, i + 1))

\* the match at the leftmost of the start positions, Undefined without one
DestLeftmost(keywords, text, starts) ==
  IF starts = {} THEN Undefined ELSE DestAt(keywords, text, Min(starts), 1)

\* match[1] of keywords(...)\s+([a-zA-Z\s,]+?)(?:...) at the leftmost start
\* position; Undefined when the pattern does not match
DestExec(keywords, text) ==
  DestLeftmost(keywords, text,
               {p \in 0..(Len(text) - 1) : DestAt(keywords, text, p, 1) # Undefined})

\* if (match && match[1]) with the length and stopword tests on the
\* trimmed capture
DestAccepted(m, extracted) ==
  /\ m # Undefined
  /\ Len(extracted) > 2
  /\ Len(extracted) < 50
  /\ ~ArrIncludes(destinationStopwords, extracted)

\* the title-cased capture when it is accepted, or else what the next
\* pattern gives
DestFromMatch(m, otherwise) ==
  IF DestAccepted(m, Trim(m)) THEN TitleCase(Trim(m)) ELSE otherwise

\* the loop over patterns: the first pattern whose first match is accepted
RECURSIVE extractDestinationFromPatterns(_, _)
extractDestinationFromPatterns(prompt, k) ==
  IF k > Len(destinationPatterns) THEN "California"
  ELSE DestFromMatch(DestExec(destinationPatterns[k], prompt),
                     extractDestinationFromPatterns(prompt, k + 1))

\* the loop over destinations without its return: the last entry the prompt
\* includes
DestFromListLast(hits, otherwise) ==
  IF hits # {} THEN TitleCase(destinations[CHOOSE d \in hits : \A e \in hits : e <= d])
  ELSE otherwise

\* the first entry of destinations the prompt includes, title-cased, or else
\* what the patterns give
DestFromList(hits, otherwise) ==
  IF hits # {} THEN TitleCase(destinations[Min(hits)]) ELSE otherwise

extractDestination(prompt) ==
  DestFromList({i \in 1..Len(destinations) : Includes(prompt, destinations[i])},
               extractDestinationFromPatterns(prompt, 1))

\* Math.ceil((min + max) / 2)
CeilHalf(x) == (x + 1) \div 2

\* the value a matching duration pattern returns
DurationValue(pat, m) ==
  CASE pat.kind = "value" -> pat.n
    [] pat.kind = "range" -> CeilHalf(DigitsToInt(m.caps[1]) + DigitsToInt(m.caps[2]))
    [] pat.kind = "multiplier" -> DigitsToInt(m.caps[1]) * pat.n

\* the substring fallbacks after the pattern loop
durationFallback(prompt) ==
  IF Includes(prompt, "quick") \/ Includes(prompt, "short") THEN 2
  ELSE IF Includes(prompt, "extended") \/ Includes(prompt, "long") THEN 10
  ELSE IF Includes(prompt, "weekend") THEN 2
  ELSE IF Includes(prompt, "week") THEN 7
  ELSE 5

\* the pattern loop from pattern k on, with li the lastIndex of every
\* pattern object: a match returns at once and leaves the pattern's
\* lastIndex at the end of the match; a miss leaves it 0
RECURSIVE extractDurationLoop(_, _, _)
extractDurationLoop(scan, li, k) ==
  IF k > NumPatterns THEN [value |-> scan.fallback, li |-> li]
  ELSE LET m == Exec(scan.matches[k], scan.len, li[k]) IN
       IF m.ok
       THEN [value |-> DurationValue(durationPatterns[k], m),
             li |-> [li EXCEPT ![k] = m.end]]
       ELSE extractDurationLoop(scan, [li EXCEPT ![k] = 0], k + 1)

extractDuration(scan, li) == extractDurationLoop(scan, li, 1)

\* the entries of a[lo..hi] the prompt includes, in order (the two halves
\* of the range in turn)
RECURSIVE SelectIn(_, _, _, _)
SelectIn(a, prompt, lo, hi) ==
  IF lo > hi THEN << >>
  ELSE IF lo = hi THEN (IF Includes(prompt, a[lo]) THEN << a[lo] >> ELSE << >>)
  ELSE SelectIn(a, prompt, lo, (lo + hi) \div 2)
       \o SelectIn(a, prompt, (lo + hi) \div 2 + 1, hi)

\* [...new Set(a)]: first occurrences, in order
RECURSIVE Dedupe(_)
Dedupe(a) ==
  IF Len(a) = 0 THEN << >>
  ELSE LET rest == Dedupe(SubSeq(a, 1, Len(a) - 1)) IN
       IF ArrIncludes(rest, a[Len(a)]) THEN rest ELSE Append(rest, a[Len(a)])

\* a.slice(0): the copy without the limit
TakeAll(a, n) == a

\* a.slice(0, n)
Take(a, n) == SubSeq(a, 1, IF Len(a) < n THEN Len(a) ELSE n)

MaxRawInterests == 5

\* extractInterests without the default triple for a prompt that names no
\* interest
extractInterestsNoDefault(prompt) ==
  Take(Dedupe(SelectIn(interests, prompt, 1, Len(interests))), MaxRawInterests)

extractInterests(prompt) ==
  LET found == SelectIn(interests, prompt, 1, Len(interests))
        \o (IF Includes(prompt, "electric") \/ Includes(prompt, "ev")
            THEN << "eco-friendly", "sustainable travel" >> ELSE << >>)
        \o (IF Includes(prompt, "family") \/ Includes(prompt, "kids")
            THEN << "family-friendly" >> ELSE << >>)
        \o (IF Includes(prompt, "romantic") \/ Includes(prompt, "couple")
            THEN << "romantic", "intimate" >> ELSE << >>)
        \o (IF Includes(prompt, "solo") \/ Includes(prompt, "alone")
            THEN << "solo travel", "self-discovery" >> ELSE << >>)
  IN IF Len(found) = 0 THEN << "scenic drives", "nature", "photography" >>
     ELSE Take(Dedupe(found), MaxRawInterests)

\* extractAccommodationType with the hotel cues tested first
extractAccommodationTypeHotelFirst(prompt) ==
  IF \/ Includes(prompt, "hotel") \/ Includes(prompt, "resort")
     \/ Includes(prompt, "luxury") \/ Includes(prompt, "comfort")
     \/ Includes(prompt, "spa")
  THEN "hotel"
  ELSE IF \/ Includes(prompt, "camp") \/ Includes(prompt, "tent") \/ Includes(prompt, "rv")
          \/ Includes(prompt, "outdoors") \/ Includes(prompt, "wilderness")
  THEN "camping"
  ELSE Undefined

extractAccommodationType(prompt) ==
  IF \/ Includes(prompt, "camp") \/ Includes(prompt, "tent") \/ Includes(prompt, "rv")
     \/ Includes(prompt, "outdoors") \/ Includes(prompt, "wilderness")
  THEN "camping"
  ELSE IF \/ Includes(prompt, "hotel") \/ Includes(prompt, "resort")
          \/ Includes(prompt, "luxury") \/ Includes(prompt, "comfort")
          \/ Includes(prompt, "spa")
  THEN "hotel"
  ELSE Undefined

\* extractPace with the fast cues tested first
extractPaceFastFirst(prompt) ==
  IF \/ Includes(prompt, "fast") \/ Includes(prompt, "quick")
     \/ Includes(prompt, "efficient") \/ Includes(prompt, "packed")
     \/ Includes(prompt, "busy")
  THEN "fast"
  ELSE IF \/ Includes(prompt, "relax") \/ Includes(prompt, "slow")
          \/ Includes(prompt, "leisure") \/ Includes(prompt, "peaceful")
          \/ Includes(prompt, "calm")
  THEN "relaxed"
  ELSE IF Includes(prompt, "moderate") \/ Includes(prompt, "balanced")
  THEN "moderate"
  ELSE Undefined

extractPace(prompt) ==
  IF \/ Includes(prompt, "relax") \/ Includes(prompt, "slow") \/ Includes(prompt, "leisure")
     \/ Includes(prompt, "peaceful") \/ Includes(prompt, "calm")
  THEN "relaxed"
  ELSE IF \/ Includes(prompt, "fast") \/ Includes(prompt, "quick")
          \/ Includes(prompt, "efficient") \/ Includes(prompt, "packed")
          \/ Includes(prompt, "busy")
  THEN "fast"
  ELSE IF Includes(prompt, "moderate") \/ Includes(prompt, "balanced")
  THEN "moderate"
  ELSE Undefined

\* ------------------------------------------------------------------------
\* UI tag mapping
\* ------------------------------------------------------------------------

\* Set.prototype.add on a set kept in insertion order
SetAdd(a, x) == IF ArrIncludes(a, x) THEN a ELSE Append(a, x)

\* the condition that maps an interest to a UI tag
TagMatches(entry, interest) ==
  \/ ArrIncludes(entry.synonyms, toLowerCase(interest))
  \/ Includes(toLowerCase(interest), toLowerCase(entry.uiTag))
  \/ Includes(toLowerCase(entry.uiTag), toLowerCase(interest))

\* first loop: every UI tag some interest matches, in table order
RECURSIVE DirectTags(_, _, _)
DirectTags(ints, k, mapped) ==
  IF k > Len(uiTagMap) THEN mapped
  ELSE DirectTags(ints, k + 1,
         IF \E i \in 1..Len(ints) : TagMatches(uiTagMap[k], ints[i])
         THEN SetAdd(mapped, uiTagMap[k].uiTag) ELSE mapped)

\* uiTagMap[tag]?.includes(interest.toLowerCase()) for some tag already mapped
IsAlreadyMapped(mapped, interest) ==
  \E i \in 1..Len(mapped) : \E k \in 1..Len(uiTagMap) :
     /\ uiTagMap[k].uiTag = mapped[i]
     /\ ArrIncludes(uiTagMap[k].synonyms, toLowerCase(interest))

\* second loop: interests no mapped tag lists are kept, title-cased
RECURSIVE CustomTags(_, _, _)
CustomTags(ints, k, mapped) ==
  IF k > Len(ints) THEN mapped
  ELSE CustomTags(ints, k + 1,
         IF ~IsAlreadyMapped(mapped, ints[k]) /\ ~ArrIncludes(mapped, ints[k])
         THEN SetAdd(mapped, TitleCase(ints[k])) ELSE mapped)

MaxTags == 6

mapInterestsToUITags(ints) ==
  Take(CustomTags(ints, 1, DirectTags(ints, 1, << >>)), MaxTags)

\* ------------------------------------------------------------------------
\* Confidence
\* ------------------------------------------------------------------------

\* /(?:to|visit|explore|see|trip to|travel to|drive to|go to)\s+[a-zA-Z\s,]+/.test:
\* a keyword, a blank, and one more character of the class
DestinationCueTest(text) ==
  \E p \in 0..Len(text) : \E i \in 1..Len(destinationPatterns[1]) :
     LET e == p + Len(destinationPatterns[1][i]) IN
     /\ StartsAt(text, destinationPatterns[1][i], p)
     /\ IsSpace(CharAt(text, e))
     /\ InDestClass(CharAt(text, e + 1))

\* destinationConfidence with the test of the extracted value before the
\* keyword test
destinationConfidenceExtractedFirst(lowerPrompt, destination) ==
  IF \E i \in 1..Len(destinations) : Includes(lowerPrompt, destinations[i]) THEN 90
  ELSE IF destination # "California" THEN 60
  ELSE IF DestinationCueTest(lowerPrompt) THEN 70
  ELSE 30

destinationConfidence(lowerPrompt, destination) ==
  IF \E i \in 1..Len(destinations) : Includes(lowerPrompt, destinations[i]) THEN 90
  ELSE IF DestinationCueTest(lowerPrompt) THEN 70
  ELSE IF destination # "California" THEN 60
  ELSE 30

\* the loop of pattern.test calls from pattern k on: the first pattern that
\* matches from its lastIndex gives 0.9 and keeps the advanced lastIndex
RECURSIVE durationConfidenceLoop(_, _, _)
durationConfidenceLoop(scan, li, k) ==
  IF k > NumPatterns THEN [value |-> 40, li |-> li]
  ELSE LET m == Exec(scan.matches[k], scan.len, li[k]) IN
       IF m.ok THEN [value |-> 90, li |-> [li EXCEPT ![k] = m.end]]
       ELSE durationConfidenceLoop(scan, [li EXCEPT ![k] = 0], k + 1)

\* Math.min(0.9, 0.3 + n * 0.15) without the cap
interestsConfidenceUncapped(n) == 30 + n * 15

interestsConfidence(n) == IF 30 + n * 15 < 90 THEN 30 + n * 15 ELSE 90

\* (a + b + c + d + e) / 5; every confidence is a multiple of 0.05, so the
\* quotient is a whole number of hundredths
Mean5(a, b, c, d, e) == (a + b + c + d + e) \div 5

\* ------------------------------------------------------------------------
\* What the extractors read off a prompt's text.  None of it depends on the
\* pattern objects' lastIndex, so it is computed once per prompt.
\* ------------------------------------------------------------------------

RECURSIVE PatternMatches(_, _)
PatternMatches(lowerPrompt, k) ==
  IF k > NumPatterns THEN << >>
  ELSE << AllMatches(durationPatterns[k], lowerPrompt) >>
       \o PatternMatches(lowerPrompt, k + 1)

ExtractedFields(lowerPrompt, destination, ints) ==
  [destination |-> destination,
   interests |-> ints,
   uiTags |-> mapInterestsToUITags(ints),
   accommodationType |-> extractAccommodationType(lowerPrompt),
   pace |-> extractPace(lowerPrompt),
   destinationConfidence |-> destinationConfidence(lowerPrompt, destination),
   scan |-> [len |-> Len(lowerPrompt),
             matches |-> PatternMatches(lowerPrompt, 1),
             fallback |-> durationFallback(lowerPrompt)]]

ExtractFrom(lowerPrompt) ==
  ExtractedFields(lowerPrompt, extractDestination(lowerPrompt),
                  extractInterests(lowerPrompt))

PromptAnalysis(prompt) == ExtractFrom(toLowerCase(prompt))

\* the prompts the operations are exercised on
Prompts ==
  << "",
     "I want a 7-day road trip through California visiting national parks and wineries",
     "Plan a weekend getaway to Seattle with good food and coffee",
     "I want to go somewhere nice",
     "3 days or 5 days",
     "A slow loop around Tuscany with hiking, museums, food, wineries, kayaking and nightlife",
     "4 days of hiking in Texas",
     "0 days" >>

\* further prompts, for the duration table (ranges, idioms, a spelled-out
\* number, a week count), for places outside the gazetteer, for two
\* gazetteer entries in one text, and for accommodation and pace cues
ParserPrompts ==
  << "3-5 days",
     "2 to 4 days",
     "weekend escape",
     "long weekend escape",
     "short trip",
     "quick trip",
     "extended trip",
     "road trip",
     "seven days",
     "2 weeks",
     "Plan an escape to Narnia",
     "Hiking in Mordor",
     "I want to go hiking across Narnia",
     "From Seattle down to California",
     "Luxury camping, slow but packed",
     "A balanced spa hotel",
     "Fast and balanced",
     "Luxury camping in Texas, slow but packed" >>

AllPrompts == Prompts \o ParserPrompts

RECURSIVE AnalyseFrom(_)
AnalyseFrom(i) ==
  IF i > Len(AllPrompts) THEN << >>
  ELSE << PromptAnalysis(AllPrompts[i]) >> \o AnalyseFrom(i + 1)

AnalysisTable == AnalyseFrom(1)

\* the analysis of one of AllPrompts
Analysis(prompt) ==
  AnalysisTable[CHOOSE i \in 1..Len(AllPrompts) : AllPrompts[i] = prompt]

calculateConfidence(extracted, li) ==
  LET dest == extracted.destinationConfidence
      dur  == durationConfidenceLoop(extracted.scan, li, 1)
      ints == interestsConfidence(Len(extracted.interests))
      acc  == IF extracted.accommodationType # Undefined THEN 80 ELSE 20
      pc   == IF extracted.pace # Undefined THEN 70 ELSE 30
  IN [confidence |-> [overall |-> Mean5(dest, dur.value, ints, acc, pc),
                      destination |-> dest,
                      duration |-> dur.value,
                      interests |-> ints,
                      accommodationType |-> acc,
                      pace |-> pc],
      li |-> dur.li]

ParsedPrompt(extracted, duration, conf) ==
  [result |-> [destination |-> extracted.destination,
               duration |-> duration.value,
               interests |-> extracted.uiTags,
               accommodationType |-> extracted.accommodationType,
               pace |-> extracted.pace,
               confidence |-> conf.confidence],
   li |-> conf.li]

\* calculateConfidence starts from the lastIndex values extractDuration
\* leaves
ParseExtracted(extracted, duration) ==
  ParsedPrompt(extracted, duration, calculateConfidence(extracted, duration.li))

ParseWith(extracted, li) ==
  ParseExtracted(extracted, extractDuration(extracted.scan, li))

\* parsePrompt with the pattern objects' lastIndex li: the record returned
\* and the lastIndex values the call leaves behind
parsePrompt(prompt, li) == ParseWith(Analysis(prompt), li)

\* ------------------------------------------------------------------------
\* Clarification questions
\* ------------------------------------------------------------------------

threshold == 60

priorityOrder(p) == CASE p = "high" -> 0 [] p = "medium" -> 1 [] p = "low" -> 2

\* the five checks, in source order, each with the question it pushes
questionTable ==
  << [field |-> "destination", priority |-> "high",
      suggestions |-> << "California", "Pacific Northwest", "New England",
                         "Southwest USA", "Florida" >>],
     [field |-> "duration", priority |-> "high",
      suggestions |-> << "2-3 days (weekend)", "4-6 days (long trip)",
                         "7+ days (extended journey)" >>],
     [field |-> "interests", priority |-> "medium",
      suggestions |-> << "Nature & Wildlife", "Food & Dining", "Art & Culture",
                         "Adventure Sports", "Photography" >>],
     [field |-> "accommodationType", priority |-> "medium",
      suggestions |-> << "Hotels (comfort & amenities)", "Camping (nature & adventure)" >>],
     [field |-> "pace", priority |-> "low",
      suggestions |-> << "Relaxed (slow & peaceful)", "Moderate (balanced)",
                         "Fast (action-packed)" >>] >>

\* the comparator with its operands exchanged
ComparePriorityReversed(a, b) == priorityOrder(b.priority) - priorityOrder(a.priority)

\* (a, b) => priorityOrder[a.priority] - priorityOrder[b.priority]
ComparePriority(a, b) == priorityOrder(a.priority) - priorityOrder(b.priority)

\* Array.prototype.sort with the priority comparator: a stable insertion
\* sort; q goes behind every element the comparator does not put after it
RECURSIVE InsertByPriority(_, _)
InsertByPriority(sorted, q) ==
  IF Len(sorted) = 0 THEN << q >>
  ELSE IF ComparePriority(sorted[Len(sorted)], q) <= 0
  THEN Append(sorted, q)
  ELSE Append(InsertByPriority(SubSeq(sorted, 1, Len(sorted) - 1), q), sorted[Len(sorted)])

RECURSIVE SortByPriority(_)
SortByPriority(qs) ==
  IF Len(qs) <= 1 THEN qs
  ELSE InsertByPriority(SortByPriority(SubSeq(qs, 1, Len(qs) - 1)), qs[Len(qs)])

\* the test with <= for <
AtOrBelowThreshold(c) == c <= threshold

\* parsed.confidence.<field> < threshold
BelowThreshold(c) == c < threshold

RECURSIVE PushQuestions(_, _)
PushQuestions(confidence, k) ==
  IF k > Len(questionTable) THEN << >>
  ELSE (IF BelowThreshold(confidence[questionTable[k].field])
        THEN << questionTable[k] >> ELSE << >>)
       \o PushQuestions(confidence, k + 1)

generateClarificationQuestions(parsed) ==
  SortByPriority(PushQuestions(parsed.confidence, 1))

\* ------------------------------------------------------------------------
\* Clarification answers (AIItineraryWizard)
\* ------------------------------------------------------------------------

\* null: no record
Null == [null |-> TRUE]

\* NaN, as parseInt returns it
NaN == [nan |-> TRUE, n |-> 0]

Num(v) == [nan |-> FALSE, n |-> v]

\* parseInt(s): leading blanks, an optional sign, then the longest run of
\* decimal digits; NaN when there is none
parseInt(s) ==
  LET b == SpaceRunEnd(s, 0)
      signed == CharAt(s, b) = "-" \/ CharAt(s, b) = "+"
      d == IF signed THEN b + 1 ELSE b
      e == DigitRunEnd(s, d)
  IN IF e = d THEN NaN
     ELSE IF CharAt(s, b) = "-" THEN Num(0 - DigitsToInt(Slice(s, d, e)))
     ELSE Num(DigitsToInt(Slice(s, d, e)))

\* a || b taking 0 for a usable number: a unless it is NaN
OrElseKeepsZero(a, b) == IF a.nan THEN b ELSE a

\* a || b on numbers: a unless it is NaN or 0
OrElse(a, b) == IF a.nan \/ a.n = 0 THEN b ELSE a

durationMap(answer) ==
  CASE answer = "2-3 days (weekend)" -> Num(3)
    [] answer = "4-6 days (long trip)" -> Num(5)
    [] answer = "7+ days (extended journey)" -> Num(7)
    [] OTHER -> NaN

typeMap(answer) ==
  CASE answer = "Hotels (comfort & amenities)" -> "hotel"
    [] answer = "Camping (nature & adventure)" -> "camping"
    [] OTHER -> Undefined

paceMap(answer) ==
  CASE answer = "Relaxed (slow & peaceful)" -> "relaxed"
    [] answer = "Moderate (balanced)" -> "moderate"
    [] answer = "Fast (action-packed)" -> "fast"
    [] OTHER -> Undefined

interestOptions ==
  << "Nature & Wildlife", "Historical Sites", "Food & Dining", "Adventure Sports",
     "Art & Culture", "Photography", "Wine & Breweries", "Museums",
     "Beaches & Coast", "Mountains", "Local Markets", "Music Venues" >>

answeredConfidence == 95

interestsAnswerStep == 25

\* the confidence of an answered field raised from its previous value, as
\* in the interests branch
accumulatedFieldConfidence(c) ==
  IF c + interestsAnswerStep < answeredConfidence
  THEN c + interestsAnswerStep ELSE answeredConfidence

\* updatedConf.<field> = 0.95, whatever the previous value c
answeredFieldConfidence(c) == answeredConfidence

\* the interests branch with the confidence set as in the other branches
answeredInterestsConfidenceFixed(c) == answeredConfidence

\* Math.min(0.95, (confidence.interests || 0) + 0.25)
answeredInterestsConfidence(c) ==
  IF c + interestsAnswerStep < answeredConfidence
  THEN c + interestsAnswerStep ELSE answeredConfidence

\* the field and confidence a clarification answer writes (lines 130-162)
applyAnswer(cur, prefDuration, field, answer) ==
  CASE field = "destination" ->
         [cur EXCEPT !.destination = answer,
                     !.confidence.destination = answeredFieldConfidence(@)]
    [] field = "duration" ->
         [cur EXCEPT !.duration = OrElse(durationMap(answer),
                                    OrElse(parseInt(answer),
                                      OrElse(Num(cur.duration), Num(prefDuration)))).n,
                     !.confidence.duration = answeredFieldConfidence(@)]
    [] field = "interests" ->
         [cur EXCEPT !.interests = IF ArrIncludes(cur.interests, answer)
                                   THEN cur.interests ELSE Append(cur.interests, answer),
                     !.confidence.interests =
                        answeredInterestsConfidence(cur.confidence.interests)]
    [] field = "accommodationType" ->
         [cur EXCEPT !.accommodationType =
                        IF typeMap(answer) # Undefined THEN typeMap(answer)
                        ELSE IF answer = "camping" THEN "camping" ELSE "hotel",
                     !.confidence.accommodationType = answeredFieldConfidence(@)]
    [] field = "pace" ->
         [cur EXCEPT !.pace = IF paceMap(answer) # Undefined THEN paceMap(answer)
                              ELSE cur.pace,
                     !.confidence.pace = answeredFieldConfidence(@)]
    [] OTHER -> cur

\* overall recomputed from the five per-field values (lines 164-174)
withOverall(p) ==
  [p EXCEPT !.confidence.overall =
     Mean5(p.confidence.destination, p.confidence.duration, p.confidence.interests,
           p.confidence.accommodationType, p.confidence.pace)]

\* the record handleClarificationAnswer commits with setParsedData
mergeAnswer(cur, prefDuration, field, answer) ==
  withOverall(applyAnswer(cur, prefDuration, field, answer))

\* a.filter(x => b.includes(x))
RECURSIVE FilterIn(_, _)
FilterIn(a, b) ==
  IF Len(a) = 0 THEN << >>
  ELSE FilterIn(SubSeq(a, 1, Len(a) - 1), b)
       \o (IF ArrIncludes(b, a[Len(a)]) THEN << a[Len(a)] >> ELSE << >>)

\* a.filter(q => q.field !== field)
RECURSIVE WithoutField(_, _)
WithoutField(qs, field) ==
  IF Len(qs) = 0 THEN << >>
  ELSE WithoutField(SubSeq(qs, 1, Len(qs) - 1), field)
       \o (IF qs[Len(qs)].field # field THEN << qs[Len(qs)] >> ELSE << >>)

\* the preferences after a clarification answer (lines 180-191)
preferencesAfterAnswer(prev, p) ==
  LET mapped == FilterIn(p.interests, interestOptions) IN
  [prev EXCEPT
     !.destination = IF p.confidence.destination > 50 THEN p.destination ELSE @,
     !.duration = IF p.confidence.duration > 50 THEN p.duration ELSE @,
     !.interests = IF p.confidence.interests > 40 /\ Len(p.interests) > 0
                   THEN (IF Len(mapped) > 0 THEN mapped ELSE Dedupe(@ \o p.interests))
                   ELSE @,
     !.accommodationType = IF p.confidence.accommodationType > 60
                              /\ p.accommodationType # Undefined
                           THEN p.accommodationType ELSE @]

\* the preferences after a prompt change that parsed (lines 211-217)
preferencesAfterParse(prev, p) ==
  [prev EXCEPT
     !.destination = IF p.confidence.destination > 70 THEN p.destination ELSE @,
     !.duration = IF p.confidence.duration > 70 THEN p.duration ELSE @,
     !.interests = IF p.confidence.interests > 50 THEN p.interests ELSE @,
     !.accommodationType = IF p.confidence.accommodationType > 70
                           THEN p.accommodationType ELSE @]

\* conf.pace || 0.5 with the || dropped
reviewPaceConfidenceDefault(c) == 50

\* conf.pace || 0.5
reviewPaceConfidence(c) == IF c = 0 THEN 50 ELSE c

\* the record a review-panel edit commits (lines 248-268)
reviewEdit(cur, field, value) ==
  LET e == CASE field = "destination" ->
                  [cur EXCEPT !.destination = value,
                              !.confidence.destination = 95]
             [] field = "duration" ->
                  [cur EXCEPT !.duration = OrElse(parseInt(value), Num(cur.duration)).n,
                              !.confidence.duration = 95]
             [] field = "interests" ->
                  [cur EXCEPT !.interests = value, !.confidence.interests = 90]
             [] field = "accommodationType" ->
                  [cur EXCEPT !.accommodationType = value,
                              !.confidence.accommodationType = 95]
             [] OTHER -> cur
  IN [e EXCEPT !.confidence.overall =
        Mean5(e.confidence.destination, e.confidence.duration, e.confidence.interests,
              e.confidence.accommodationType,
              reviewPaceConfidence(e.confidence.pace))]

\* ------------------------------------------------------------------------
\* State
\* ------------------------------------------------------------------------

VARIABLES
  lastIndex,               \* lastIndex of each durationPatterns[k].pattern
  lastCall,                \* the most recent parsePrompt call: text and record returned
  prevCall,                \* the parsePrompt call before lastCall
  promptText,              \* wizard state: prompt
  parsedData,              \* wizard state: parsedData, or Null
  preferences,             \* wizard state: preferences
  clarificationQuestions,  \* wizard state: clarificationQuestions
  showClarification,       \* wizard state: showClarification
  showReviewPanel,         \* wizard state: showReviewPanel
  lastOp,                  \* the handler that ran last: its arguments, the record and
                           \* preferences.duration it started from and, for an answer that
                           \* follows an answer to the same field, the same of that one
  steps,                   \* number of operations so far
  user,                    \* useAuth().user, or Null
  isGenerating,            \* wizard state: isGenerating
  generateTourCall,        \* the arguments of the last routeService.generateTour call of
                           \* handleGenerate and whether it has settled, or Null
  round,                   \* since the prompt last changed: the fields the user supplied
                           \* a value for, the high-priority fields handleGenerate last
                           \* asked about and the fields answered since it asked
  tourPc,                  \* RouteService.generateTour: the await the call is parked on
  tourInput,               \* generateTour's preferences and the AI response it is given
  tour,                    \* the tour being built: its number of stops, or Null
  saved,                   \* blink.db: the tour record is saved, the stops saved so far
  progressLog              \* what the progress callback has received, in order

generateVars == << user, isGenerating, generateTourCall >>

tourVars == << tourPc, tourInput, tour, saved, progressLog >>

vars == << lastIndex, lastCall, prevCall, promptText, parsedData, preferences,
           clarificationQuestions, showClarification, showReviewPanel, lastOp, steps,
           round, generateVars, tourVars >>

\* number of operations in a run
MaxSteps == 3

Fields == << "destination", "duration", "interests", "accommodationType", "pace" >>

\* answers delivered to handleClarificationAnswer, per field: a suggestion
\* label and a free-text answer
AnswersFor(field) ==
  CASE field = "destination" -> {"Florida", "Paris"}
    [] field = "duration" -> {"2-3 days (weekend)", "10", "soon"}
    [] field = "interests" -> {"Food & Dining", "Stargazing"}
    [] field = "accommodationType" -> {"Hotels (comfort & amenities)", "camping"}
    [] field = "pace" -> {"Fast (action-packed)", "brisk"}

\* values the review panel passes to handleParsedPreferencesChange
ReviewValuesFor(field) ==
  CASE field = "destination" -> {"Oregon"}
    [] field = "duration" -> {"4", ""}
    [] field = "accommodationType" -> {"hotel", "camping"}

ReviewInterests == {"Photography", "Food & Dining"}

NoCall == [text |-> "", result |-> Null]

NoOp == [op |-> "none", field |-> "", value |-> "", before |-> Null, pref |-> 0,
         first |-> Null]

FreshLastIndex == [k \in 1..NumPatterns |-> 0]

SignedInUser == [id |-> "user-1"]

NoRound == [supplied |-> {}, asked |-> {}, answered |-> {}]

NoSave == [tour |-> FALSE, stops |-> 0]

\* RouteService before any generateTour call
TourIdle ==
  /\ tourPc = "idle"
  /\ tourInput = Null
  /\ tour = Null
  /\ saved = NoSave
  /\ progressLog = << >>

\* the wizard as mounted, with u the user useAuth reports
WizardInit(u) ==
  /\ lastIndex = FreshLastIndex
  /\ lastCall = NoCall
  /\ prevCall = NoCall
  /\ promptText = ""
  /\ parsedData = Null
  /\ preferences = [destination |-> "", duration |-> 3, interests |-> << >>,
                    accommodationType |-> "hotel", vehicleRange |-> 300,
                    budget |-> "medium"]
  /\ clarificationQuestions = << >>
  /\ showClarification = FALSE
  /\ showReviewPanel = FALSE
  /\ lastOp = NoOp
  /\ steps = 0
  /\ user = u
  /\ isGenerating = FALSE
  /\ generateTourCall = Null
  /\ round = NoRound

Init == WizardInit(SignedInUser) /\ TourIdle

\* ------------------------------------------------------------------------
\* Operations
\* ------------------------------------------------------------------------

\* AIPromptParser.parsePrompt(text) called directly (testParser, any caller)
ParsePrompt(text) ==
  LET r == parsePrompt(text, lastIndex) IN
  /\ steps' = steps + 1
  /\ lastIndex' = r.li
  /\ prevCall' = lastCall
  /\ lastCall' = [text |-> text, result |-> r.result]
  /\ lastOp' = [NoOp EXCEPT !.op = "parsePrompt", !.value = text]
  /\ UNCHANGED << promptText, parsedData, preferences, clarificationQuestions,
                  showClarification, showReviewPanel, round, generateVars, tourVars >>

\* handlePromptChange(value)
HandlePromptChange(value) ==
  /\ steps' = steps + 1
  /\ promptText' = value
  /\ lastOp' = [NoOp EXCEPT !.op = "handlePromptChange", !.value = value]
  /\ round' = NoRound
  /\ UNCHANGED << showClarification, generateVars, tourVars >>
  /\ IF Len(Trim(value)) > 20
     THEN LET r == parsePrompt(value, lastIndex) IN
          /\ lastIndex' = r.li
          /\ prevCall' = lastCall
          /\ lastCall' = [text |-> value, result |-> r.result]
          /\ parsedData' = r.result
          /\ preferences' = preferencesAfterParse(preferences, r.result)
          /\ IF r.result.confidence.overall < 70
             THEN /\ clarificationQuestions' = generateClarificationQuestions(r.result)
                  /\ showReviewPanel' = TRUE
             ELSE /\ clarificationQuestions' = << >>
                  /\ showReviewPanel' = FALSE
     ELSE /\ parsedData' = Null
          /\ clarificationQuestions' = << >>
          /\ showReviewPanel' = FALSE
          /\ UNCHANGED << lastIndex, lastCall, prevCall, preferences >>

\* handleClarificationAnswer(field, answer)
HandleClarificationAnswer(field, answer) ==
  LET r == parsePrompt(promptText, lastIndex)
      currentParsed == IF parsedData # Null THEN parsedData ELSE r.result
      updatedParsed == mergeAnswer(currentParsed, preferences.duration, field, answer)
      remaining == WithoutField(clarificationQuestions, field)
  IN
  /\ steps' = steps + 1
  /\ IF parsedData # Null
     THEN UNCHANGED << lastIndex, lastCall, prevCall >>
     ELSE /\ lastIndex' = r.li
          /\ prevCall' = lastCall
          /\ lastCall' = [text |-> promptText, result |-> r.result]
  /\ parsedData' = updatedParsed
  /\ preferences' = preferencesAfterAnswer(preferences, updatedParsed)
  /\ clarificationQuestions' = remaining
  /\ showClarification' =
       IF \E i \in 1..Len(remaining) : remaining[i].priority = "high"
       THEN showClarification ELSE FALSE
  /\ lastOp' = [op |-> "handleClarificationAnswer", field |-> field,
                value |-> answer, before |-> currentParsed,
                pref |-> preferences.duration,
                first |-> IF lastOp.op = "handleClarificationAnswer" /\ lastOp.field = field
                          THEN [value |-> lastOp.value, before |-> lastOp.before,
                                pref |-> lastOp.pref]
                          ELSE Null]
  /\ round' = [round EXCEPT !.supplied = @ \cup {field},
                            !.answered = IF round.asked # {} THEN @ \cup {field} ELSE @]
  /\ UNCHANGED << promptText, showReviewPanel, generateVars, tourVars >>

\* handleParsedPreferencesChange(field, value)
HandleParsedPreferencesChange(field, value) ==
  /\ steps' = steps + 1
  /\ lastOp' = [op |-> "handleParsedPreferencesChange", field |-> field,
                value |-> value, before |-> parsedData, pref |-> 0,
                first |-> Null]
  /\ IF parsedData = Null
     THEN UNCHANGED << parsedData, preferences, round >>
     ELSE LET updatedParsed == reviewEdit(parsedData, field, value) IN
          /\ parsedData' = updatedParsed
          /\ round' = [round EXCEPT !.supplied = @ \cup {field}]
          /\ preferences' =
               [preferences EXCEPT
                  !.destination = updatedParsed.destination,
                  !.duration = updatedParsed.duration,
                  !.interests = updatedParsed.interests,
                  !.accommodationType =
                     IF updatedParsed.accommodationType # Undefined
                     THEN updatedParsed.accommodationType ELSE @]
  /\ UNCHANGED << lastIndex, lastCall, prevCall, promptText, clarificationQuestions,
                  showClarification, showReviewPanel, generateVars, tourVars >>

\* a.filter(i => i !== x)
RECURSIVE Without(_, _)
Without(a, x) ==
  IF Len(a) = 0 THEN << >>
  ELSE Without(SubSeq(a, 1, Len(a) - 1), x)
       \o (IF a[Len(a)] # x THEN << a[Len(a)] >> ELSE << >>)

\* toggleReviewInterest(interest)
ToggleReviewInterest(interest) ==
  /\ parsedData # Null
  /\ HandleParsedPreferencesChange("interests",
       IF ArrIncludes(parsedData.interests, interest)
       THEN Without(parsedData.interests, interest)
       ELSE Append(parsedData.interests, interest))

Next ==
  \/ /\ steps < MaxSteps
     /\ \E i \in 1..Len(Prompts) : ParsePrompt(Prompts[i])
  \/ /\ steps < MaxSteps
     /\ \E i \in 1..Len(Prompts) : HandlePromptChange(Prompts[i])
  \/ /\ steps < MaxSteps
     /\ \E i \in 1..Len(Fields) : \E answer \in AnswersFor(Fields[i]) :
          HandleClarificationAnswer(Fields[i], answer)
  \/ /\ steps < MaxSteps
     /\ \E field \in {"destination", "duration", "accommodationType"} :
          \E value \in ReviewValuesFor(field) : HandleParsedPreferencesChange(field, value)
  \/ /\ steps < MaxSteps
     /\ \E interest \in ReviewInterests : ToggleReviewInterest(interest)

Spec == Init /\ [][Next]_vars

\* number of parsePrompt calls in a run of the parser alone
MaxCalls == 2

\* the parser alone: parsePrompt called on one prompt after another
ParserNext ==
  /\ steps < MaxCalls
  /\ \E i \in 1..Len(AllPrompts) : ParsePrompt(AllPrompts[i])

ParserSpec == Init /\ [][ParserNext]_vars


\* ------------------------------------------------------------------------
\* Properties
\* ------------------------------------------------------------------------

ConfidenceFields == {"destination", "duration", "interests", "accommodationType", "pace"}

\* the ParsedPreferences records the program holds: the one parsePrompt
\* returned last and the wizard's parsedData
HeldRecords == {r \in {lastCall.result, parsedData} : r # Null}

RoadTripText ==
  "I want a 7-day road trip through California visiting national parks and wineries"

WeekendText == "Plan a weekend getaway to Seattle with good food and coffee"

\* C1: two parsePrompt calls in a row on the same text return identical
\* records.
C1_ParseTwiceSameRecord ==
  (lastCall.result # Null /\ prevCall.result # Null /\ lastCall.text = prevCall.text)
    => lastCall.result = prevCall.result

\* C2: the record parsePrompt returns for a text is the one a freshly loaded
\* parser returns for it, whatever calls came before.
C2_RecordOfFreshParser ==
  lastCall.result # Null
    => lastCall.result = parsePrompt(lastCall.text, FreshLastIndex).result

\* C3: after any sequence of earlier calls, every confidence value of the
\* record parsePrompt returns (the five fields and overall) lies in [0,1].
C3_ConfidenceInUnitInterval ==
  lastCall.result # Null
    => \A f \in ConfidenceFields \cup {"overall"} :
         lastCall.result.confidence[f] >= 0 /\ lastCall.result.confidence[f] <= 100

\* a later call whose prompt names more interests than are kept: the
\* interests confidence sits at its cap
C3_Witness ==
  /\ prevCall.result # Null
  /\ lastCall.result # Null
  /\ Len(lastCall.result.interests) = 6
  /\ lastCall.result.confidence.interests = 90
  /\ lastCall.result.confidence.destination = 60

\* C4: the interests list parsePrompt returns has no duplicate tag and at
\* most 6 entries.
C4_InterestsDistinctAtMostSix ==
  lastCall.result # Null
    => /\ Len(lastCall.result.interests) <= 6
       /\ \A i, j \in 1..Len(lastCall.result.interests) :
            i # j => lastCall.result.interests[i] # lastCall.result.interests[j]

\* a prompt that names six interests, two of them mapped to the tag of a
\* third: the list is full
C4_Witness ==
  /\ lastCall.result # Null
  /\ Len(lastCall.result.interests) = 6
  /\ lastCall.result.interests[3] = "Art & Culture"
  /\ lastCall.result.interests[5] = "Museums"

\* exactly one question of qs for each field of r below 0.6, none for the
\* other fields
OneQuestionPerLowField(r, qs) ==
  \A f \in ConfidenceFields :
    Cardinality({i \in 1..Len(qs) : qs[i].field = f})
      = (IF r.confidence[f] < 60 THEN 1 ELSE 0)

\* C5: generateClarificationQuestions returns exactly one question for each
\* of the five fields whose confidence is strictly below 0.6 and none for a
\* field whose confidence is 0.6 or more.
C5_OneQuestionPerLowField ==
  /\ \A r \in HeldRecords : OneQuestionPerLowField(r, generateClarificationQuestions(r))
  /\ (lastOp.op = "handlePromptChange" /\ parsedData # Null
        /\ parsedData.confidence.overall < 70)
       => OneQuestionPerLowField(parsedData, clarificationQuestions)

\* a prompt change whose record has a field at exactly 0.6 and fields below
C5_Witness ==
  /\ lastOp.op = "handlePromptChange"
  /\ parsedData # Null
  /\ parsedData.confidence.interests = 60
  /\ parsedData.confidence.destination = 90
  /\ Len(clarificationQuestions) = 3

PriorityRank(p) == CASE p = "high" -> 1 [] p = "medium" -> 2 [] p = "low" -> 3

FieldCheckIndex(f) ==
  CASE f = "destination" -> 1 [] f = "duration" -> 2 [] f = "interests" -> 3
    [] f = "accommodationType" -> 4 [] f = "pace" -> 5

\* qs runs from high to low priority and, within one priority, in the order
\* of the field checks
SortedStable(qs) ==
  \A i, j \in 1..Len(qs) :
    i < j => \/ PriorityRank(qs[i].priority) < PriorityRank(qs[j].priority)
             \/ /\ qs[i].priority = qs[j].priority
                /\ FieldCheckIndex(qs[i].field) < FieldCheckIndex(qs[j].field)

\* C6: the sequence generateClarificationQuestions returns is sorted by
\* priority (high, then medium, then low) and keeps the field-check order
\* within one priority.
C6_SortedByPriorityStable ==
  /\ \A r \in HeldRecords : SortedStable(generateClarificationQuestions(r))
  /\ SortedStable(clarificationQuestions)

\* a prompt change that asks four questions, two of them of medium priority
C6_Witness ==
  /\ lastOp.op = "handlePromptChange"
  /\ Len(clarificationQuestions) = 4
  /\ clarificationQuestions[1].priority = "high"
  /\ clarificationQuestions[2].field = "interests"
  /\ clarificationQuestions[3].field = "accommodationType"
  /\ clarificationQuestions[4].priority = "low"

\* the other four per-field confidences are those of the record the answer
\* was merged into and overall is the mean of the five
OthersKeptOverallMean ==
  /\ \A f \in ConfidenceFields \ {lastOp.field} :
       parsedData.confidence[f] = lastOp.before.confidence[f]
  /\ 5 * parsedData.confidence.overall
       = parsedData.confidence.destination + parsedData.confidence.duration
         + parsedData.confidence.interests + parsedData.confidence.accommodationType
         + parsedData.confidence.pace

AnsweredAlone ==
  mergeAnswer(lastOp.first.before, lastOp.first.pref, lastOp.field, lastOp.value)

AnswerSetsField(field, answer) ==
  \/ field \in {"destination", "accommodationType"}
  \/ /\ field = "duration"
     /\ \/ answer \in {"2-3 days (weekend)", "4-6 days (long trip)",
                       "7+ days (extended journey)"}
        \/ ~parseInt(answer).nan /\ parseInt(answer).n # 0
  \/ /\ field = "pace"
     /\ answer \in {"Relaxed (slow & peaceful)", "Moderate (balanced)",
                    "Fast (action-packed)"}

C9_RoadTripScenario ==
  (steps = 1 /\ lastCall.result # Null /\ lastCall.text = RoadTripText)
    => /\ lastCall.result.destination = "California"
       /\ lastCall.result.confidence.destination = 90
       /\ lastCall.result.duration = 7
       /\ lastCall.result.confidence.duration = 90

\* C10: on a freshly loaded parser the weekend prompt gives destination
\* Seattle, duration 2 with confidence 0.9 and a food-related interest.
C10_WeekendScenario ==
  (steps = 1 /\ lastCall.result # Null /\ lastCall.text = WeekendText)
    => /\ lastCall.result.destination = "Seattle"
       /\ lastCall.result.duration = 2
       /\ lastCall.result.confidence.duration = 90
       /\ ArrIncludes(lastCall.result.interests, "Food & Dining")

\* ------------------------------------------------------------------------
\* Properties of the scenarios, the defaults and the duration table
\* ------------------------------------------------------------------------

SomewhereNiceText == "I want to go somewhere nice"

\* C11: on a freshly loaded parser the prompt "I want to go somewhere nice"
\* gives destination California with confidence 0.3 and duration 5 with
\* confidence 0.4, and the questions for that record start with the
\* destination question and the duration question, both of high priority.
C11_SomewhereNiceScenario ==
  (steps = 1 /\ lastCall.result # Null /\ lastCall.text = SomewhereNiceText)
    => /\ lastCall.result.destination = "California"
       /\ lastCall.result.confidence.destination = 30
       /\ lastCall.result.duration = 5
       /\ lastCall.result.confidence.duration = 40
       /\ Len(generateClarificationQuestions(lastCall.result)) >= 2
       /\ generateClarificationQuestions(lastCall.result)[1].field = "destination"
       /\ generateClarificationQuestions(lastCall.result)[1].priority = "high"
       /\ generateClarificationQuestions(lastCall.result)[2].field = "duration"
       /\ generateClarificationQuestions(lastCall.result)[2].priority = "high"

\* a record with every field of ParsedPreferences filled or absent as the
\* type allows
IsParsedPreferences(r) ==
  /\ r.destination # ""
  /\ r.duration \in Int
  /\ Len(r.interests) >= 1
  /\ r.accommodationType \in {"hotel", "camping", Undefined}
  /\ r.pace \in {"relaxed", "moderate", "fast", Undefined}

\* C12: parsePrompt returns a record for every prompt, the empty string
\* included; for the empty string the record has destination California,
\* duration 5, no accommodationType and no pace, the tags of the default
\* interests and overall confidence below 0.6.
C12_EmptyPromptDefaults ==
  lastCall.result # Null
    => /\ IsParsedPreferences(lastCall.result)
       /\ lastCall.text = ""
            => /\ lastCall.result.destination = "California"
               /\ lastCall.result.duration = 5
               /\ lastCall.result.accommodationType = Undefined
               /\ lastCall.result.pace = Undefined
               /\ lastCall.result.interests = << "Nature & Wildlife", "Photography" >>
               /\ lastCall.result.confidence.overall < 60

\* the empty string parsed after a call that left a pattern's lastIndex set
C12_Witness ==
  /\ prevCall.result # Null
  /\ prevCall.text = "3 days or 5 days"
  /\ lastCall.result # Null
  /\ lastCall.text = ""
  /\ lastCall.result.duration = 5
  /\ lastCall.result.confidence.overall = 39

\* overall is the arithmetic mean of the five per-field confidences of r
OverallIsMean(r) ==
  5 * r.confidence.overall
    = r.confidence.destination + r.confidence.duration + r.confidence.interests
      + r.confidence.accommodationType + r.confidence.pace

\* C13: in every record reached by parsePrompt, clarification answers and
\* review-panel edits, confidence.overall is the arithmetic mean of the five
\* per-field confidences of the record.
C13_OverallIsMean == \A r \in HeldRecords : OverallIsMean(r)

\* a review-panel edit of a record that an answer had changed before
C13_Witness ==
  /\ lastOp.op = "handleParsedPreferencesChange"
  /\ lastOp.before # Null
  /\ parsedData # Null
  /\ parsedData.confidence.overall > lastOp.before.confidence.overall
  /\ parsedData.confidence.pace = 95

DurationLabels ==
  {"2-3 days (weekend)", "4-6 days (long trip)", "7+ days (extended journey)"}

LabelDays(answer) ==
  CASE answer = "2-3 days (weekend)" -> 3
    [] answer = "4-6 days (long trip)" -> 5
    [] answer = "7+ days (extended journey)" -> 7

\* parseInt reads a number other than 0 off the answer
ParsesToDays(answer) == ~parseInt(answer).nan /\ parseInt(answer).n # 0

DurationMatches(text) == Analysis(text).scan.matches

\* the listed duration patterns that match somewhere in the text
MatchingPatterns(text) ==
  {k \in 1..NumPatterns : DOMAIN DurationMatches(text)[k] # {}}

\* C15: duration confidence is 0.9 exactly when the returned duration was
\* produced by one of the listed duration patterns and 0.4 exactly when it
\* came from a substring fallback or the default.  A call's duration is
\* produced by a pattern when some pattern's exec, started at the lastIndex
\* the call finds, matches.
C15_DurationConfidenceTellsSource ==
  [][lastCall'.result.confidence.duration =
       (IF \E k \in 1..NumPatterns :
            Exec(DurationMatches(lastCall'.text)[k], Len(lastCall'.text), lastIndex[k]).ok
        THEN 90 ELSE 40)]_vars

\* C16: after a parsePrompt call returns, the lastIndex of every duration
\* pattern is what it was before the call.
C16_LastIndexUnchanged == [][lastIndex' = lastIndex]_vars

\* C17: if a listed duration pattern matches somewhere in the text, the
\* returned duration is a value the first such pattern in table order
\* computes from a match in the text; the fallbacks and the default are used
\* only when no listed pattern matches.
C17_FirstMatchingPatternWins ==
  lastCall.result # Null
    => IF MatchingPatterns(lastCall.text) # {}
       THEN \E p \in DOMAIN DurationMatches(lastCall.text)[Min(MatchingPatterns(lastCall.text))] :
              lastCall.result.duration
                = DurationValue(durationPatterns[Min(MatchingPatterns(lastCall.text))],
                    DurationMatches(lastCall.text)[Min(MatchingPatterns(lastCall.text))][p])
       ELSE lastCall.result.duration = Analysis(lastCall.text).scan.fallback

\* the two range patterns, "N-M days" and "N to M days", by table position
RangePatterns == {k \in 1..NumPatterns : durationPatterns[k].kind = "range"}

\* C18: for every text that contains a numeric range "N-M days" or
\* "N to M days", the returned duration is the ceiling of (N + M) / 2.
C18_RangeGivesCeilingOfMean ==
  lastCall.result # Null
    => \A k \in RangePatterns :
         \A p \in DOMAIN DurationMatches(lastCall.text)[k] :
           2 * lastCall.result.duration
             \in { DigitsToInt(DurationMatches(lastCall.text)[k][p].caps[1])
                     + DigitsToInt(DurationMatches(lastCall.text)[k][p].caps[2]),
                   DigitsToInt(DurationMatches(lastCall.text)[k][p].caps[1])
                     + DigitsToInt(DurationMatches(lastCall.text)[k][p].caps[2]) + 1 }

\* prompts whose only duration cue is one idiom, with the idiom's value
IdiomCases ==
  { [text |-> "weekend escape", days |-> 2],
    [text |-> "long weekend escape", days |-> 3],
    [text |-> "short trip", days |-> 2],
    [text |-> "quick trip", days |-> 1],
    [text |-> "extended trip", days |-> 10],
    [text |-> "road trip", days |-> 7] }

\* C19: a text whose only duration cue is one idiom gets that idiom's value:
\* weekend 2, long weekend 3, short trip 2, quick trip 1, extended trip 10,
\* road trip 7.
C19_IdiomGivesItsValue ==
  lastCall.result # Null
    => \A c \in IdiomCases :
         lastCall.text = c.text => lastCall.result.duration = c.days

\* the prompts for which extractDestination returns its default: no
\* gazetteer entry occurs in the text and no preposition pattern yields an
\* accepted phrase
DefaultedPrompts ==
  {i \in 1..Len(AllPrompts) :
     /\ \A d \in 1..Len(destinations) : ~Includes(toLowerCase(AllPrompts[i]), destinations[d])
     /\ \A k \in 1..Len(destinationPatterns) :
          ~DestAccepted(DestExec(destinationPatterns[k], toLowerCase(AllPrompts[i])),
                        Trim(DestExec(destinationPatterns[k], toLowerCase(AllPrompts[i]))))}

\* C20: when the destination is the default California because neither the
\* gazetteer nor a preposition pattern yielded an accepted phrase, the
\* destination confidence is 0.3.
C20_DefaultDestinationConfidence ==
  lastCall.result # Null
    => \A i \in DefaultedPrompts :
         lastCall.text = AllPrompts[i]
           => /\ lastCall.result.destination = "California"
              /\ lastCall.result.confidence.destination = 30

\* ------------------------------------------------------------------------
\* Properties of the destination, interests, accommodation and pace fields
\* ------------------------------------------------------------------------

\* the gazetteer entries the lower-cased prompt i contains, by table index
GazetteerHits ==
  [i \in 1..Len(AllPrompts) |->
     {d \in 1..Len(destinations) : Includes(toLowerCase(AllPrompts[i]), destinations[d])}]

\* the pattern groups whose first match on the lower-cased prompt i is an
\* accepted phrase
AcceptingGroups ==
  [i \in 1..Len(AllPrompts) |->
     {k \in 1..Len(destinationPatterns) :
        DestAccepted(DestExec(destinationPatterns[k], toLowerCase(AllPrompts[i])),
                     Trim(DestExec(destinationPatterns[k], toLowerCase(AllPrompts[i]))))}]

\* the prompts without a gazetteer entry whose destination is taken from a
\* preposition pattern
PatternSourcedPrompts ==
  {i \in 1..Len(AllPrompts) : GazetteerHits[i] = {} /\ AcceptingGroups[i] # {}}

\* C21 as stated: when no gazetteer entry occurs in the text and the
\* destination was taken from a preposition pattern of any of the three
\* groups, the destination confidence is 0.7.
C21_PatternDestinationConfidence ==
  lastCall.result # Null
    => \A i \in PatternSourcedPrompts :
         lastCall.text = AllPrompts[i] => lastCall.result.confidence.destination = 70

\* C21 as amended: when no gazetteer entry occurs in the text and the
\* destination was taken from a preposition pattern, the destination
\* confidence is 0.7 if the first group (to/visit/explore/see/...) gave it or
\* the text has a first-group keyword followed by white space and a letter,
\* blank or comma, and 0.6 if the second or third group gave it and the
\* text has no such keyword.
C21_PatternDestinationConfidenceByCue ==
  lastCall.result # Null
    => \A i \in PatternSourcedPrompts :
         lastCall.text = AllPrompts[i]
           => /\ lastCall.result.destination # "California"
              /\ lastCall.result.confidence.destination
                   = (IF Min(AcceptingGroups[i]) = 1
                         \/ DestinationCueTest(toLowerCase(AllPrompts[i]))
                      THEN 70 ELSE 60)

\* a place taken from "in ..." without a first-group keyword, then a place
\* taken from "across ..." in a text that also says "to go"
C21_Witness ==
  /\ prevCall.result # Null
  /\ prevCall.text = "Hiking in Mordor"
  /\ prevCall.result.destination = "Mordor"
  /\ prevCall.result.confidence.destination = 60
  /\ lastCall.result # Null
  /\ lastCall.text = "I want to go hiking across Narnia"
  /\ lastCall.result.destination = "Narnia"
  /\ lastCall.result.confidence.destination = 70

\* C22: when the lower-cased text contains a gazetteer entry, parsePrompt
\* returns the title-cased first such entry in table order, wherever it
\* stands in the text, with destination confidence 0.9, whatever the
\* preposition patterns would give.
C22_FirstGazetteerEntryWins ==
  lastCall.result # Null
    => \A i \in 1..Len(AllPrompts) :
         (lastCall.text = AllPrompts[i] /\ GazetteerHits[i] # {})
           => /\ \E d \in GazetteerHits[i] :
                   /\ \A e \in GazetteerHits[i] : d <= e
                   /\ lastCall.result.destination = TitleCase(destinations[d])
              /\ lastCall.result.confidence.destination = 90

\* a text that names Seattle before California: California stands first in
\* the table
C22_Witness ==
  /\ lastCall.result # Null
  /\ lastCall.text = "From Seattle down to California"
  /\ Cardinality(GazetteerHits[CHOOSE i \in 1..Len(AllPrompts) :
                                 AllPrompts[i] = lastCall.text]) = 2
  /\ lastCall.result.destination = "California"
  /\ lastCall.result.confidence.destination = 90

\* the raw interest terms the lower-cased text matches: the vocabulary
\* entries it contains and the terms added for the cue words
RawInterestTerms(text) ==
  {interests[j] : j \in {j \in 1..Len(interests) : Includes(text, interests[j])}}
    \cup (IF Includes(text, "electric") \/ Includes(text, "ev")
          THEN {"eco-friendly", "sustainable travel"} ELSE {})
    \cup (IF Includes(text, "family") \/ Includes(text, "kids")
          THEN {"family-friendly"} ELSE {})
    \cup (IF Includes(text, "romantic") \/ Includes(text, "couple")
          THEN {"romantic", "intimate"} ELSE {})
    \cup (IF Includes(text, "solo") \/ Includes(text, "alone")
          THEN {"solo travel", "self-discovery"} ELSE {})

RawInterestCount ==
  [i \in 1..Len(AllPrompts) |-> Cardinality(RawInterestTerms(toLowerCase(AllPrompts[i])))]

\* C23: the interests confidence is min(0.9, 0.3 + 0.15 * n), n being the
\* number of raw interest terms matched in the text.
C23_InterestsConfidenceCountsMatches ==
  lastCall.result # Null
    => \A i \in 1..Len(AllPrompts) :
         lastCall.text = AllPrompts[i]
           => lastCall.result.confidence.interests
                = Min({90, 30 + 15 * RawInterestCount[i]})

CampingCues == {"camp", "tent", "rv", "outdoors", "wilderness"}

HotelCues == {"hotel", "resort", "luxury", "comfort", "spa"}

RelaxedCues == {"relax", "slow", "leisure", "peaceful", "calm"}

FastCues == {"fast", "quick", "efficient", "packed", "busy"}

ModerateCues == {"moderate", "balanced"}

\* the lower-cased text contains one of the cues
HasCue(text, cues) == \E c \in cues : Includes(toLowerCase(text), c)

\* C24: a text with a camping cue gives camping even when it has a hotel
\* cue too; otherwise a text with a hotel cue gives hotel; otherwise the
\* field is absent; the accommodation confidence is 0.8 exactly when a
\* value is present and 0.2 otherwise.
C24_AccommodationCues ==
  lastCall.result # Null
    => /\ lastCall.result.accommodationType
            = (IF HasCue(lastCall.text, CampingCues) THEN "camping"
               ELSE IF HasCue(lastCall.text, HotelCues) THEN "hotel"
               ELSE Undefined)
       /\ lastCall.result.confidence.accommodationType
            = (IF lastCall.result.accommodationType # Undefined THEN 80 ELSE 20)

\* a text with hotel cues only, then a text with a hotel cue before a
\* camping cue
C24_Witness ==
  /\ prevCall.result # Null
  /\ prevCall.text = "A balanced spa hotel"
  /\ prevCall.result.accommodationType = "hotel"
  /\ lastCall.result # Null
  /\ lastCall.text = "Luxury camping, slow but packed"
  /\ lastCall.result.accommodationType = "camping"
  /\ lastCall.result.confidence.accommodationType = 80

\* C25: the pace is that of the first of the groups relaxed, fast, moderate
\* with a cue in the text; with no cue the field is absent; the pace
\* confidence is 0.7 exactly when a value is present and 0.3 otherwise.
C25_PaceCues ==
  lastCall.result # Null
    => /\ lastCall.result.pace
            = (IF HasCue(lastCall.text, RelaxedCues) THEN "relaxed"
               ELSE IF HasCue(lastCall.text, FastCues) THEN "fast"
               ELSE IF HasCue(lastCall.text, ModerateCues) THEN "moderate"
               ELSE Undefined)
       /\ lastCall.result.confidence.pace
            = (IF lastCall.result.pace # Undefined THEN 70 ELSE 30)

\* a text with a fast and a moderate cue, then a text with a relaxed and a
\* fast cue
C25_Witness ==
  /\ prevCall.result # Null
  /\ prevCall.text = "Fast and balanced"
  /\ prevCall.result.pace = "fast"
  /\ lastCall.result # Null
  /\ lastCall.text = "Luxury camping, slow but packed"
  /\ lastCall.result.pace = "relaxed"
  /\ lastCall.result.confidence.pace = 70

\* C26: in every record produced by parsePrompt or by merging a
\* clarification answer, duration is an integer of at least 1.
C26_DurationAtLeastOne ==
  \A r \in HeldRecords : r.duration \in Int /\ r.duration >= 1

\* ------------------------------------------------------------------------
\* Tour generation from the wizard
\* ------------------------------------------------------------------------

\* parsePromptPreferences(prompt, base), with parsed the record parsePrompt
\* returns for the prompt
parsePromptPreferences(parsed, base) ==
  [base EXCEPT
     !.destination = IF parsed.confidence.destination > 50 THEN parsed.destination ELSE @,
     !.duration = IF parsed.confidence.duration > 50 THEN parsed.duration ELSE @,
     !.interests = IF parsed.confidence.interests > 40 THEN parsed.interests ELSE @,
     !.accommodationType = IF parsed.confidence.accommodationType > 60
                           THEN parsed.accommodationType ELSE @,
     !.budget = IF parsed.pace # Undefined /\ parsed.confidence.pace > 60
                THEN (IF parsed.pace = "relaxed" THEN "high"
                      ELSE IF parsed.pace = "fast" THEN "low" ELSE "medium")
                ELSE @]

\* the high-priority fields among questions qs
HighPriorityFields(qs) == {qs[i].field : i \in {i \in 1..Len(qs) : qs[i].priority = "high"}}

\* the test of handleGenerate with the filter on priority dropped
needsClarificationAnyQuestion(parsed) ==
  /\ parsed # Null
  /\ parsed.confidence.overall < 60
  /\ Len(generateClarificationQuestions(parsed)) > 0

\* the test of handleGenerate without the test of the overall confidence
needsClarificationAnyOverall(parsed) ==
  /\ parsed # Null
  /\ HighPriorityFields(generateClarificationQuestions(parsed)) # {}

\* the test of handleGenerate: a record with overall confidence below 0.6
\* and a high-priority question
needsClarification(parsed) ==
  /\ parsed # Null
  /\ parsed.confidence.overall < 60
  /\ HighPriorityFields(generateClarificationQuestions(parsed)) # {}

GenerateOp(outcome) ==
  [op |-> "handleGenerate", field |-> "", value |-> outcome, before |-> parsedData,
   pref |-> 0, first |-> Null]

\* handleGenerate, first branch: no user
GenerateWithoutUser ==
  /\ lastOp' = GenerateOp("return")
  /\ UNCHANGED << lastIndex, lastCall, prevCall, parsedData, preferences,
                  clarificationQuestions, showClarification, round, generateVars >>

\* handleGenerate, second branch: the clarification modal is opened
GenerateAsksFirst(questions) ==
  /\ clarificationQuestions' = questions
  /\ showClarification' = TRUE
  /\ round' = [round EXCEPT !.asked = HighPriorityFields(questions), !.answered = {}]
  /\ lastOp' = GenerateOp("clarify")
  /\ UNCHANGED << lastIndex, lastCall, prevCall, parsedData, preferences, generateVars >>

\* handleGenerate, the call routeService.generateTour(finalPreferences,
\* user.id, enhancedParsedData)
GenerateCallsService(finalPreferences, enhancedParsedData) ==
  /\ isGenerating' = TRUE
  /\ generateTourCall' = [preferences |-> finalPreferences, userId |-> user.id,
                          parsedData |-> enhancedParsedData, status |-> "pending"]
  /\ lastOp' = GenerateOp("generateTour")
  /\ UNCHANGED << parsedData, preferences, clarificationQuestions, showClarification,
                  round, user >>

\* handleGenerate, third branch with a prompt: first the record of
\* parsePrompt(prompt), then that of the parsePrompt call inside
\* parsePromptPreferences
GenerateFromPrompt(first, second) ==
  /\ lastIndex' = second.li
  /\ prevCall' = [text |-> promptText, result |-> first.result]
  /\ lastCall' = [text |-> promptText, result |-> second.result]
  /\ GenerateCallsService(parsePromptPreferences(second.result, preferences),
                          first.result)

GenerateReparsing(first) ==
  GenerateFromPrompt(first, parsePrompt(promptText, first.li))

\* handleGenerate as the button "Create My Adventure" calls it: the button
\* is disabled while a tour is generated and without interests
HandleGenerate ==
  /\ ~isGenerating
  /\ Len(preferences.interests) > 0
  /\ steps' = steps + 1
  /\ UNCHANGED << promptText, showReviewPanel, tourVars >>
  /\ IF user = Null THEN GenerateWithoutUser
     ELSE IF needsClarification(parsedData)
     THEN GenerateAsksFirst(generateClarificationQuestions(parsedData))
     ELSE IF Trim(promptText) # ""
     THEN GenerateReparsing(parsePrompt(promptText, lastIndex))
     ELSE /\ GenerateCallsService(preferences, parsedData)
          /\ UNCHANGED << lastIndex, lastCall, prevCall >>

\* the generateTour call of handleGenerate settles: onTourGenerated and
\* onClose when it resolves, the catch clause when it rejects, and the
\* finally clause
GenerateTourSettles(resolved) ==
  /\ isGenerating
  /\ generateTourCall # Null
  /\ generateTourCall.status = "pending"
  /\ steps' = steps + 1
  /\ isGenerating' = FALSE
  /\ generateTourCall' =
       [generateTourCall EXCEPT !.status = IF resolved THEN "resolved" ELSE "rejected"]
  /\ lastOp' = [NoOp EXCEPT !.op = "generateTourSettles"]
  /\ UNCHANGED << lastIndex, lastCall, prevCall, promptText, parsedData, preferences,
                  clarificationQuestions, showClarification, showReviewPanel, round,
                  user, tourVars >>

\* onClose of the clarification modal
CloseClarification ==
  /\ showClarification
  /\ steps' = steps + 1
  /\ showClarification' = FALSE
  /\ lastOp' = [NoOp EXCEPT !.op = "closeClarification"]
  /\ UNCHANGED << lastIndex, lastCall, prevCall, promptText, parsedData, preferences,
                  clarificationQuestions, showReviewPanel, round, generateVars, tourVars >>

\* number of operations in a run of the wizard with generation
MaxGenerateSteps == 5

\* the prompts typed in a run with generation: a city from the gazetteer
\* with a weekend, a state with accommodation and pace cues, the same cues
\* without a place, a wish without place, length or cue
GeneratePrompts ==
  << "Plan a weekend getaway to Seattle with good food and coffee",
     "Luxury camping in Texas, slow but packed",
     "Luxury camping, slow but packed",
     "I want to go somewhere nice" >>

GenerateAnswersFor(field) ==
  CASE field = "destination" -> {"Paris"}
    [] field = "duration" -> {"10"}
    [] field = "interests" -> {"Stargazing"}

\* the wizard is mounted until a tour has been generated
WizardOpen == IF generateTourCall = Null THEN TRUE ELSE generateTourCall.status # "resolved"

\* a run with generation goes on while the wizard is mounted
InRun == steps < MaxGenerateSteps /\ WizardOpen

GenerateNext ==
  \/ /\ InRun
     /\ \E i \in 1..Len(GeneratePrompts) : HandlePromptChange(GeneratePrompts[i])
  \/ /\ InRun
     /\ \E field \in {"destination", "duration", "interests"} :
          \E answer \in GenerateAnswersFor(field) : HandleClarificationAnswer(field, answer)
  \/ /\ InRun
     /\ HandleParsedPreferencesChange("destination", "Oregon")
  \/ /\ InRun
     /\ HandleGenerate
  \/ /\ InRun
     /\ \E resolved \in BOOLEAN : GenerateTourSettles(resolved)
  \/ /\ InRun
     /\ CloseClarification

GenerateInit == (\E u \in {Null, SignedInUser} : WizardInit(u)) /\ TourIdle

GenerateSpec == GenerateInit /\ [][GenerateNext]_vars

\* ------------------------------------------------------------------------
\* Properties of generation
\* ------------------------------------------------------------------------

FormFields == {"destination", "duration", "interests", "accommodationType"}

\* this step is a handleGenerate call that calls routeService.generateTour
GenerationStarts ==
  /\ steps' = steps + 1
  /\ lastOp'.op = "handleGenerate"
  /\ lastOp'.value = "generateTour"

\* C27: with a non-empty prompt left unchanged, every value the user
\* supplied through handleClarificationAnswer or the review panel for
\* destination, duration, interests or accommodationType (the value the
\* handler stored in the form preferences) is the value of that field in
\* the preferences the next handleGenerate passes to generateTour.
C27_ClarifiedValuesReachGeneration ==
  [][(GenerationStarts /\ Trim(promptText) # "")
       => \A f \in round.supplied \cap FormFields :
            generateTourCall'.preferences[f] = preferences[f]]_vars

\* the record has a destination or duration confidence below 0.6
HighFieldBelowThreshold(r) ==
  r.confidence.destination < 60 \/ r.confidence.duration < 60

\* the last handleGenerate opened the clarification modal with the
\* questions for the record it found and did not call generateTour
ModalOpenedInstead ==
  /\ lastOp.value = "clarify"
  /\ showClarification
  /\ clarificationQuestions = generateClarificationQuestions(lastOp.before)
  /\ ~isGenerating

\* C28 as stated: handleGenerate never starts tour generation while the
\* current parsed record has a destination or duration confidence below
\* 0.6: it opens the clarification modal with the generated questions and
\* returns without calling generateTour.
C28_NoGenerationBelowThreshold ==
  (lastOp.op = "handleGenerate" /\ lastOp.before # Null
     /\ HighFieldBelowThreshold(lastOp.before))
    => ModalOpenedInstead

\* C28 as amended: for a signed-in user, handleGenerate does not start tour
\* generation while the current parsed record has an overall confidence
\* below 0.6 and a destination or duration confidence below 0.6: it opens
\* the clarification modal with the generated questions and returns without
\* calling generateTour; with an overall confidence of 0.6 or more, or
\* without a parsed record, it calls generateTour.
C28_NoGenerationWhenOverallLow ==
  (lastOp.op = "handleGenerate" /\ user # Null)
    => IF lastOp.before # Null
       THEN IF lastOp.before.confidence.overall < 60
               /\ HighFieldBelowThreshold(lastOp.before)
            THEN ModalOpenedInstead
            ELSE lastOp.value = "generateTour" /\ isGenerating
       ELSE lastOp.value = "generateTour" /\ isGenerating

\* a prompt without place or length: the modal opens with both
\* high-priority questions
C28_Witness ==
  /\ lastOp.op = "handleGenerate"
  /\ user # Null
  /\ promptText = "Luxury camping, slow but packed"
  /\ lastOp.before.confidence.overall = 56
  /\ lastOp.value = "clarify"
  /\ showClarification
  /\ round.asked = {"destination", "duration"}
  /\ clarificationQuestions[1].field = "destination"
  /\ generateTourCall = Null

\* every high-priority question handleGenerate asked has been answered
\* through handleClarificationAnswer, the prompt unchanged
RoundComplete == round.asked # {} /\ round.asked \subseteq round.answered

\* C29: once the signed-in user has answered every high-priority question
\* of the modal handleGenerate opened, the prompt unchanged, the modal is
\* closed and the next handleGenerate calls generateTour and does not open
\* the modal again.
C29_AnsweredRoundGenerates ==
  [][/\ (user # Null /\ RoundComplete') => ~showClarification'
     /\ (steps' = steps + 1 /\ lastOp'.op = "handleGenerate" /\ user # Null
           /\ RoundComplete)
          => /\ lastOp'.value = "generateTour"
             /\ isGenerating'
             /\ generateTourCall'.status = "pending"
             /\ ~showClarification']_vars

\* the one high-priority question answered, the overall confidence still
\* below 0.6 and two questions left, then handleGenerate
C29_Witness ==
  /\ lastOp.op = "handleGenerate"
  /\ user # Null
  /\ promptText = "I want to go somewhere nice"
  /\ round.asked = {"duration"}
  /\ round.answered = {"duration"}
  /\ lastOp.before.confidence.overall = 58
  /\ Len(clarificationQuestions) = 2
  /\ lastOp.value = "generateTour"
  /\ isGenerating
  /\ ~showClarification

\* ------------------------------------------------------------------------
\* RouteService.generateTour
\* ------------------------------------------------------------------------

\* the updateProgress calls of generateTour, in program order
ProgressReports ==
  << [stage |-> "analyzing", progress |-> 10],
     [stage |-> "analyzing", progress |-> 25],
     [stage |-> "routing", progress |-> 40],
     [stage |-> "routing", progress |-> 55],
     [stage |-> "stops", progress |-> 70],
     [stage |-> "stops", progress |-> 85],
     [stage |-> "finalizing", progress |-> 95],
     [stage |-> "finalizing", progress |-> 100] >>

\* the k-th updateProgress call, with the callback setProgressCallback set
UpdateProgress(k) == progressLog' = Append(progressLog, ProgressReports[k])

\* longest trip and most highlights of an AI response in a run
MaxDays == 3

MaxHighlights == 2

\* vehicleRange values of the slider used in a run
VehicleRanges == {150, 300}

\* the AI response: text without JSON, or JSON with a number of highlights
\* and no estimatedDistance
AiResponses ==
  {[json |-> FALSE, highlights |-> 0]}
    \cup {[json |-> TRUE, highlights |-> n] : n \in 0..MaxHighlights}

\* parseAIResponse: the stops and the totalDistance of the tour, those of
\* createFallbackTour when the response holds no JSON
parseAIResponse(response) ==
  IF response.json
  THEN [stops |-> response.highlights, totalDistance |-> 300]
  ELSE [stops |-> 2, totalDistance |-> 250]

\* Math.floor(totalDistance / (vehicleRange * 0.8))
numChargingStops(totalDistance, vehicleRange) ==
  (totalDistance * 10) \div (vehicleRange * 8)

\* generateAccommodationStops: one stop per night
numAccommodationStops(durationDays) ==
  IF durationDays - 1 > 0 THEN durationDays - 1 ELSE 0

\* enhanceWithStops: the tour with charging and accommodation stops added
enhanceWithStops(t, prefs) ==
  [t EXCEPT !.stops = @ + numChargingStops(t.totalDistance, prefs.vehicleRange)
                        + (IF prefs.duration > 1
                           THEN numAccommodationStops(prefs.duration) ELSE 0)]

\* saveTour reached its return once the tour record is saved, without the
\* loop over the stops
SaveCompleteTourOnly(s, t) == s.tour

\* saveTour reaches its return: the tour record and every stop are saved
SaveComplete(s, t) == s.tour /\ s.stops = t.stops

\* saveTour after a create call resolved: generateTour goes on to report
\* 100 when saveTour returns, or else the next stop is created
AfterCreate(s) ==
  /\ saved' = s
  /\ IF SaveComplete(s, tour)
     THEN UpdateProgress(8) /\ tourPc' = "delay 800"
     ELSE tourPc' = "routeStops.create" /\ UNCHANGED progressLog

wizardVars == << lastIndex, lastCall, prevCall, promptText, parsedData, preferences,
                 clarificationQuestions, showClarification, showReviewPanel, lastOp,
                 steps, round, generateVars >>

\* generateTour is called: the first report, then the first delay
GenerateTourCalled ==
  /\ tourPc = "idle"
  /\ UpdateProgress(1)
  /\ tourPc' = "delay 1500 a"
  /\ UNCHANGED << tourInput, tour, saved, wizardVars >>

\* a delay(ms) timer fires and generateTour runs to its next await
DelayElapses ==
  /\ CASE tourPc = "delay 1500 a" ->
            /\ tourPc' = "generateText"
            /\ UNCHANGED << tour, progressLog >>
       [] tourPc = "delay 1000 a" ->
            /\ UpdateProgress(3)
            /\ tourPc' = "delay 2000 a"
            /\ UNCHANGED tour
       [] tourPc = "delay 2000 a" ->
            /\ tour' = parseAIResponse(tourInput.response)
            /\ UpdateProgress(4)
            /\ tourPc' = "delay 1500 b"
       [] tourPc = "delay 1500 b" ->
            /\ UpdateProgress(5)
            /\ tourPc' = "delay 2000 b"
            /\ UNCHANGED tour
       [] tourPc = "delay 2000 b" ->
            /\ tour' = enhanceWithStops(tour, tourInput.preferences)
            /\ UpdateProgress(6)
            /\ tourPc' = "delay 1000 b"
       [] tourPc = "delay 1000 b" ->
            /\ UpdateProgress(7)
            /\ tourPc' = "delay 1500 c"
            /\ UNCHANGED tour
       [] tourPc = "delay 1500 c" ->
            /\ tourPc' = "tours.create"
            /\ UNCHANGED << tour, progressLog >>
       [] tourPc = "delay 800" ->
            /\ tourPc' = "resolved"
            /\ UNCHANGED << tour, progressLog >>
       [] OTHER -> FALSE
  /\ UNCHANGED << tourInput, saved, wizardVars >>

\* blink.ai.generateText settles
GenerateTextSettles(ok) ==
  /\ tourPc = "generateText"
  /\ IF ok THEN UpdateProgress(2) /\ tourPc' = "delay 1000 a"
     ELSE tourPc' = "rejected" /\ UNCHANGED progressLog
  /\ UNCHANGED << tourInput, tour, saved, wizardVars >>

\* blink.db.tours.create settles
TourCreateSettles(ok) ==
  /\ tourPc = "tours.create"
  /\ IF ok THEN AfterCreate([saved EXCEPT !.tour = TRUE])
     ELSE tourPc' = "rejected" /\ UNCHANGED << saved, progressLog >>
  /\ UNCHANGED << tourInput, tour, wizardVars >>

\* blink.db.routeStops.create settles for the next stop of the loop
StopCreateSettles(ok) ==
  /\ tourPc = "routeStops.create"
  /\ IF ok THEN AfterCreate([saved EXCEPT !.stops = @ + 1])
     ELSE tourPc' = "rejected" /\ UNCHANGED << saved, progressLog >>
  /\ UNCHANGED << tourInput, tour, wizardVars >>

TourNext ==
  \/ GenerateTourCalled
  \/ DelayElapses
  \/ \E ok \in BOOLEAN : GenerateTextSettles(ok)
  \/ \E ok \in BOOLEAN : TourCreateSettles(ok)
  \/ \E ok \in BOOLEAN : StopCreateSettles(ok)

\* the wizard as mounted and a RouteService about to be called with some
\* preferences, the AI about to give some response
TourInit ==
  /\ WizardInit(SignedInUser)
  /\ tourPc = "idle"
  /\ tourInput \in [preferences : [duration : 0..MaxDays, vehicleRange : VehicleRanges],
                    response : AiResponses]
  /\ tour = Null
  /\ saved = NoSave
  /\ progressLog = << >>

TourSpec == TourInit /\ [][TourNext]_vars

StageRank(stage) ==
  CASE stage = "analyzing" -> 1 [] stage = "routing" -> 2
    [] stage = "stops" -> 3 [] stage = "finalizing" -> 4

\* the reports in log have strictly increasing progress values, all among
\* 10, 25, 40, 55, 70, 85, 95, 100, and stages that never go backwards
InOrder(log) ==
  /\ \A i \in 1..Len(log) : log[i].progress \in {10, 25, 40, 55, 70, 85, 95, 100}
  /\ \A i, j \in 1..Len(log) :
       i < j => /\ log[i].progress < log[j].progress
                /\ StageRank(log[i].stage) <= StageRank(log[j].stage)

HundredReported(log) == \E i \in 1..Len(log) : log[i].progress = 100

\* C30: during one generateTour call the progress callback receives
\* strictly increasing progress values (10, 25, 40, 55, 70, 85, 95, 100)
\* with stages never going backwards; 100 is reported only after the tour
\* and all of its stops have been saved; a failing step reports nothing,
\* nothing is reported after it and the call rejects; a call that resolves
\* has reported all eight values.
C30_ProgressInOrder ==
  [][/\ InOrder(progressLog')
     /\ HundredReported(progressLog')
          => (tour' # Null /\ saved'.tour /\ saved'.stops = tour'.stops)
     /\ tourPc' = "rejected"
          => (progressLog' = progressLog /\ ~HundredReported(progressLog'))
     /\ tourPc = "rejected" => tourPc' = "rejected"
     /\ tourPc' = "resolved" => progressLog' = ProgressReports]_vars

\* a resolved call for a three-day trip: the tour and its six stops saved
C30_Witness ==
  /\ tourPc = "resolved"
  /\ tourInput.preferences.duration = 3
  /\ tour.stops = 6
  /\ saved.tour
  /\ saved.stops = 6
  /\ Len(progressLog) = 8
  /\ progressLog[8].progress = 100
====
